---- MODULE Spec2Model ----
(***************************************************************************)
(* Model of Elby.py, the 8x8 Game Boy tile editor: the pixel grid, the     *)
(* current palette colour, the editable hex field, the two drawing         *)
(* surfaces, and the handlers bound to the widgets.                        *)
(*                                                                         *)
(* Text is a sequence of one-character strings.  Lists are sequences, the   *)
(* Python index i being the TLA+ index i + 1: a grid is a sequence of 8     *)
(* rows of 8 cells, grid_data[y][x] being At(grid_data, y, x).  A drawing   *)
(* surface holds, for every pixel, the index in PALETTE of its fill colour. *)
(***************************************************************************)
EXTENDS Integers, Sequences, FiniteSets, TLC

VARIABLES grid_data, current, current_display, canvas, preview, hex_entry,
          sel_last, error, last_op, steps

vars == <<grid_data, current, current_display, canvas, preview, hex_entry,
          sel_last, error, last_op, steps>>

----------------------------------------------------------------------------
(* Program constants *)

GRID == 8

NBYTES == 16

preview_scale == 24

PALETTE == <<"#FFFFFF", "#C0C0C0", "#606060", "#000000">>

(* GB_MAPPING with the pair of index 3 mistyped as that of index 2 *)
GB_MAPPING_Dup == (0 :> <<1, 1>>) @@ (1 :> <<1, 0>>) @@ (2 :> <<0, 0>>) @@ (3 :> <<0, 0>>)

GB_MAPPING == (0 :> <<1, 1>>) @@ (1 :> <<1, 0>>) @@ (2 :> <<0, 0>>) @@ (3 :> <<0, 1>>)

(* {v: k for k, v in GB_MAPPING.items()}: keys are the mapped pairs; when two
   indices share a pair the later one (the larger index, in insertion order)
   overwrites the earlier. *)
GB_REVERSE ==
  [v \in {GB_MAPPING[k] : k \in DOMAIN GB_MAPPING} |->
     CHOOSE k \in DOMAIN GB_MAPPING :
        /\ GB_MAPPING[k] = v
        /\ \A k2 \in DOMAIN GB_MAPPING : GB_MAPPING[k2] = v => k2 <= k]

(* g[y][x] of a list of lists *)
At(g, y, x) == g[y + 1][x + 1]

(* g[y][x] = v *)
SetAt(g, y, x, v) == [g EXCEPT ![y + 1][x + 1] = v]

(* The messages handed to messagebox.showerror; NoError when none is shown. *)
NoError == "none"

ErrLength == "Hex must contain exactly 16 bytes."

ErrHexByte == "Invalid hex byte detected."

ErrColorBits == "Hex does not map to valid GB color codes."

----------------------------------------------------------------------------
(* Bounds of the model *)

(* the number of events explored *)
MaxSteps == 4

----------------------------------------------------------------------------
(* Integer bit operations, as Python computes them on unbounded ints *)

(* v << n *)
Shl(v, n) == v * 2^n

(* v >> n: floor division, also for negative v *)
Shr(v, n) == v \div 2^n

(* a | b for a, b >= 0 *)
RECURSIVE BitOr(_, _)
BitOr(a, b) ==
  IF a = 0 THEN b
  ELSE IF b = 0 THEN a
  ELSE (IF a % 2 = 1 \/ b % 2 = 1 THEN 1 ELSE 0) + 2 * BitOr(a \div 2, b \div 2)

(* v & 1: the lowest bit of the two's complement of v *)
And1(v) == v % 2

----------------------------------------------------------------------------
(* GB encoding: grid -> tile bytes -> swapped pairs -> hex text *)

(* RowPlane with column x shifted to bit x instead of bit 7 - x *)
RECURSIVE RowPlaneLsbFirst(_, _, _, _)
RowPlaneLsbFirst(g, y, x, plane) ==
  IF x < 0 THEN 0
  ELSE BitOr(RowPlaneLsbFirst(g, y, x - 1, plane), Shl(GB_MAPPING[At(g, y, x)][plane], x))

(* The value of low (plane = 1) or high (plane = 2) in grid_to_tile_bytes after
   the inner loop has handled columns 0..x of row y. *)
RECURSIVE RowPlane(_, _, _, _)
RowPlane(g, y, x, plane) ==
  IF x < 0 THEN 0
  ELSE BitOr(RowPlane(g, y, x - 1, plane), Shl(GB_MAPPING[At(g, y, x)][plane], 7 - x))

(* tile after rows 0..y have been appended *)
RECURSIVE TileRows(_, _)
TileRows(g, y) ==
  IF y < 0 THEN <<>>
  ELSE Append(Append(TileRows(g, y - 1), RowPlane(g, y, GRID - 1, 1)),
              RowPlane(g, y, GRID - 1, 2))

grid_to_tile_bytes(g) == TileRows(g, GRID - 1)

(* out after the loop has handled i = 0, 2, .., i (Python indices) *)
RECURSIVE SwapLoop(_, _)
SwapLoop(tile_bytes, i) ==
  IF i < 0 THEN <<>>
  ELSE LET a == tile_bytes[i + 1]
           b == tile_bytes[i + 2]
       IN Append(Append(SwapLoop(tile_bytes, i - 2), b), a)

(* to_little_endian_pairs returning the bytes in the order it got them *)
to_little_endian_pairs_Unswapped(tile_bytes) == tile_bytes

to_little_endian_pairs(tile_bytes) == SwapLoop(tile_bytes, NBYTES - 2)

HexDigits == <<"0", "1", "2", "3", "4", "5", "6", "7", "8", "9",
               "A", "B", "C", "D", "E", "F">>

(* The digits of b >= 0 in base 16, uppercase, without padding *)
RECURSIVE HexOf(_)
HexOf(b) ==
  IF b < 16 THEN <<HexDigits[b + 1]>>
  ELSE Append(HexOf(b \div 16), HexDigits[(b % 16) + 1])

(* f"{b:02X}" for b >= 0: zero-padded to a width of at least two *)
Format02X(b) ==
  LET digits == HexOf(b)
  IN IF Len(digits) < 2 THEN <<"0">> \o digits ELSE digits

(* " ".join(parts) *)
RECURSIVE JoinSpace(_)
JoinSpace(parts) ==
  IF Len(parts) = 0 THEN <<>>
  ELSE IF Len(parts) = 1 THEN parts[1]
  ELSE parts[1] \o <<" ">> \o JoinSpace(Tail(parts))

(* The text _update_hex_display puts in the hex field for grid g *)
HexDisplay(g) ==
  LET tile == grid_to_tile_bytes(g)
      swapped == to_little_endian_pairs(tile)
  IN JoinSpace([i \in 1..Len(swapped) |-> Format02X(swapped[i])])

----------------------------------------------------------------------------
(* Hex text -> tokens -> integers *)

(* A character outside ASCII is written by its code point, as in "U+00A0". *)

(* The characters str.strip() and str.split() take for whitespace (str.isspace):
   U+0009..U+000D, U+001C..U+001F, the blank, and the Unicode separators. *)
Whitespace ==
  {"\t", "\n", "", "\f", "\r", "", "", "", "", " ", "U+0085", "U+00A0",
   "U+1680", "U+2000", "U+2001", "U+2002", "U+2003", "U+2004", "U+2005",
   "U+2006", "U+2007", "U+2008", "U+2009", "U+200A", "U+2028", "U+2029",
   "U+202F", "U+205F", "U+3000"}

IsSpace(c) == c \in Whitespace

(* str.strip(): the text from its first to its last non-blank character *)
Strip(t) ==
  LET solid == {i \in 1..Len(t) : ~IsSpace(t[i])}
  IN IF solid = {} THEN <<>>
     ELSE SubSeq(t, CHOOSE i \in solid : \A j \in solid : i <= j,
                    CHOOSE i \in solid : \A j \in solid : j <= i)

(* str.split(): the maximal runs of non-blank characters, in order *)
Split(t) ==
  LET starts == {i \in 1..Len(t) : ~IsSpace(t[i]) /\ (i = 1 \/ IsSpace(t[i - 1]))}
      ends == {i \in 1..Len(t) : ~IsSpace(t[i]) /\ (i = Len(t) \/ IsSpace(t[i + 1]))}
      EndOf(i) == CHOOSE j \in ends : j >= i /\ \A k \in ends : k >= i => j <= k
      StartOf(n) == CHOOSE i \in starts : Cardinality({j \in starts : j < i}) = n - 1
  IN [n \in 1..Cardinality(starts) |-> LET i == StartOf(n) IN SubSeq(t, i, EndOf(i))]

(* The decimal digits of Unicode outside ASCII, which int() reads as the ASCII
   digit of their value: one row per script, the digits 0..9 in order. *)
UnicodeDigits ==
  <<
    <<"U+0660", "U+0661", "U+0662", "U+0663", "U+0664",
      "U+0665", "U+0666", "U+0667", "U+0668", "U+0669">>,
    <<"U+06F0", "U+06F1", "U+06F2", "U+06F3", "U+06F4",
      "U+06F5", "U+06F6", "U+06F7", "U+06F8", "U+06F9">>,
    <<"U+07C0", "U+07C1", "U+07C2", "U+07C3", "U+07C4",
      "U+07C5", "U+07C6", "U+07C7", "U+07C8", "U+07C9">>,
    <<"U+0966", "U+0967", "U+0968", "U+0969", "U+096A",
      "U+096B", "U+096C", "U+096D", "U+096E", "U+096F">>,
    <<"U+09E6", "U+09E7", "U+09E8", "U+09E9", "U+09EA",
      "U+09EB", "U+09EC", "U+09ED", "U+09EE", "U+09EF">>,
    <<"U+0A66", "U+0A67", "U+0A68", "U+0A69", "U+0A6A",
      "U+0A6B", "U+0A6C", "U+0A6D", "U+0A6E", "U+0A6F">>,
    <<"U+0AE6", "U+0AE7", "U+0AE8", "U+0AE9", "U+0AEA",
      "U+0AEB", "U+0AEC", "U+0AED", "U+0AEE", "U+0AEF">>,
    <<"U+0B66", "U+0B67", "U+0B68", "U+0B69", "U+0B6A",
      "U+0B6B", "U+0B6C", "U+0B6D", "U+0B6E", "U+0B6F">>,
    <<"U+0BE6", "U+0BE7", "U+0BE8", "U+0BE9", "U+0BEA",
      "U+0BEB", "U+0BEC", "U+0BED", "U+0BEE", "U+0BEF">>,
    <<"U+0C66", "U+0C67", "U+0C68", "U+0C69", "U+0C6A",
      "U+0C6B", "U+0C6C", "U+0C6D", "U+0C6E", "U+0C6F">>,
    <<"U+0CE6", "U+0CE7", "U+0CE8", "U+0CE9", "U+0CEA",
      "U+0CEB", "U+0CEC", "U+0CED", "U+0CEE", "U+0CEF">>,
    <<"U+0D66", "U+0D67", "U+0D68", "U+0D69", "U+0D6A",
      "U+0D6B", "U+0D6C", "U+0D6D", "U+0D6E", "U+0D6F">>,
    <<"U+0DE6", "U+0DE7", "U+0DE8", "U+0DE9", "U+0DEA",
      "U+0DEB", "U+0DEC", "U+0DED", "U+0DEE", "U+0DEF">>,
    <<"U+0E50", "U+0E51", "U+0E52", "U+0E53", "U+0E54",
      "U+0E55", "U+0E56", "U+0E57", "U+0E58", "U+0E59">>,
    <<"U+0ED0", "U+0ED1", "U+0ED2", "U+0ED3", "U+0ED4",
      "U+0ED5", "U+0ED6", "U+0ED7", "U+0ED8", "U+0ED9">>,
    <<"U+0F20", "U+0F21", "U+0F22", "U+0F23", "U+0F24",
      "U+0F25", "U+0F26", "U+0F27", "U+0F28", "U+0F29">>,
    <<"U+1040", "U+1041", "U+1042", "U+1043", "U+1044",
      "U+1045", "U+1046", "U+1047", "U+1048", "U+1049">>,
    <<"U+1090", "U+1091", "U+1092", "U+1093", "U+1094",
      "U+1095", "U+1096", "U+1097", "U+1098", "U+1099">>,
    <<"U+17E0", "U+17E1", "U+17E2", "U+17E3", "U+17E4",
      "U+17E5", "U+17E6", "U+17E7", "U+17E8", "U+17E9">>,
    <<"U+1810", "U+1811", "U+1812", "U+1813", "U+1814",
      "U+1815", "U+1816", "U+1817", "U+1818", "U+1819">>,
    <<"U+1946", "U+1947", "U+1948", "U+1949", "U+194A",
      "U+194B", "U+194C", "U+194D", "U+194E", "U+194F">>,
    <<"U+19D0", "U+19D1", "U+19D2", "U+19D3", "U+19D4",
      "U+19D5", "U+19D6", "U+19D7", "U+19D8", "U+19D9">>,
    <<"U+1A80", "U+1A81", "U+1A82", "U+1A83", "U+1A84",
      "U+1A85", "U+1A86", "U+1A87", "U+1A88", "U+1A89">>,
    <<"U+1A90", "U+1A91", "U+1A92", "U+1A93", "U+1A94",
      "U+1A95", "U+1A96", "U+1A97", "U+1A98", "U+1A99">>,
    <<"U+1B50", "U+1B51", "U+1B52", "U+1B53", "U+1B54",
      "U+1B55", "U+1B56", "U+1B57", "U+1B58", "U+1B59">>,
    <<"U+1BB0", "U+1BB1", "U+1BB2", "U+1BB3", "U+1BB4",
      "U+1BB5", "U+1BB6", "U+1BB7", "U+1BB8", "U+1BB9">>,
    <<"U+1C40", "U+1C41", "U+1C42", "U+1C43", "U+1C44",
      "U+1C45", "U+1C46", "U+1C47", "U+1C48", "U+1C49">>,
    <<"U+1C50", "U+1C51", "U+1C52", "U+1C53", "U+1C54",
      "U+1C55", "U+1C56", "U+1C57", "U+1C58", "U+1C59">>,
    <<"U+A620", "U+A621", "U+A622", "U+A623", "U+A624",
      "U+A625", "U+A626", "U+A627", "U+A628", "U+A629">>,
    <<"U+A8D0", "U+A8D1", "U+A8D2", "U+A8D3", "U+A8D4",
      "U+A8D5", "U+A8D6", "U+A8D7", "U+A8D8", "U+A8D9">>,
    <<"U+A900", "U+A901", "U+A902", "U+A903", "U+A904",
      "U+A905", "U+A906", "U+A907", "U+A908", "U+A909">>,
    <<"U+A9D0", "U+A9D1", "U+A9D2", "U+A9D3", "U+A9D4",
      "U+A9D5", "U+A9D6", "U+A9D7", "U+A9D8", "U+A9D9">>,
    <<"U+A9F0", "U+A9F1", "U+A9F2", "U+A9F3", "U+A9F4",
      "U+A9F5", "U+A9F6", "U+A9F7", "U+A9F8", "U+A9F9">>,
    <<"U+AA50", "U+AA51", "U+AA52", "U+AA53", "U+AA54",
      "U+AA55", "U+AA56", "U+AA57", "U+AA58", "U+AA59">>,
    <<"U+ABF0", "U+ABF1", "U+ABF2", "U+ABF3", "U+ABF4",
      "U+ABF5", "U+ABF6", "U+ABF7", "U+ABF8", "U+ABF9">>,
    <<"U+FF10", "U+FF11", "U+FF12", "U+FF13", "U+FF14",
      "U+FF15", "U+FF16", "U+FF17", "U+FF18", "U+FF19">>,
    <<"U+104A0", "U+104A1", "U+104A2", "U+104A3", "U+104A4",
      "U+104A5", "U+104A6", "U+104A7", "U+104A8", "U+104A9">>,
    <<"U+10D30", "U+10D31", "U+10D32", "U+10D33", "U+10D34",
      "U+10D35", "U+10D36", "U+10D37", "U+10D38", "U+10D39">>,
    <<"U+11066", "U+11067", "U+11068", "U+11069", "U+1106A",
      "U+1106B", "U+1106C", "U+1106D", "U+1106E", "U+1106F">>,
    <<"U+110F0", "U+110F1", "U+110F2", "U+110F3", "U+110F4",
      "U+110F5", "U+110F6", "U+110F7", "U+110F8", "U+110F9">>,
    <<"U+11136", "U+11137", "U+11138", "U+11139", "U+1113A",
      "U+1113B", "U+1113C", "U+1113D", "U+1113E", "U+1113F">>,
    <<"U+111D0", "U+111D1", "U+111D2", "U+111D3", "U+111D4",
      "U+111D5", "U+111D6", "U+111D7", "U+111D8", "U+111D9">>,
    <<"U+112F0", "U+112F1", "U+112F2", "U+112F3", "U+112F4",
      "U+112F5", "U+112F6", "U+112F7", "U+112F8", "U+112F9">>,
    <<"U+11450", "U+11451", "U+11452", "U+11453", "U+11454",
      "U+11455", "U+11456", "U+11457", "U+11458", "U+11459">>,
    <<"U+114D0", "U+114D1", "U+114D2", "U+114D3", "U+114D4",
      "U+114D5", "U+114D6", "U+114D7", "U+114D8", "U+114D9">>,
    <<"U+11650", "U+11651", "U+11652", "U+11653", "U+11654",
      "U+11655", "U+11656", "U+11657", "U+11658", "U+11659">>,
    <<"U+116C0", "U+116C1", "U+116C2", "U+116C3", "U+116C4",
      "U+116C5", "U+116C6", "U+116C7", "U+116C8", "U+116C9">>,
    <<"U+11730", "U+11731", "U+11732", "U+11733", "U+11734",
      "U+11735", "U+11736", "U+11737", "U+11738", "U+11739">>,
    <<"U+118E0", "U+118E1", "U+118E2", "U+118E3", "U+118E4",
      "U+118E5", "U+118E6", "U+118E7", "U+118E8", "U+118E9">>,
    <<"U+11950", "U+11951", "U+11952", "U+11953", "U+11954",
      "U+11955", "U+11956", "U+11957", "U+11958", "U+11959">>,
    <<"U+11C50", "U+11C51", "U+11C52", "U+11C53", "U+11C54",
      "U+11C55", "U+11C56", "U+11C57", "U+11C58", "U+11C59">>,
    <<"U+11D50", "U+11D51", "U+11D52", "U+11D53", "U+11D54",
      "U+11D55", "U+11D56", "U+11D57", "U+11D58", "U+11D59">>,
    <<"U+11DA0", "U+11DA1", "U+11DA2", "U+11DA3", "U+11DA4",
      "U+11DA5", "U+11DA6", "U+11DA7", "U+11DA8", "U+11DA9">>,
    <<"U+16A60", "U+16A61", "U+16A62", "U+16A63", "U+16A64",
      "U+16A65", "U+16A66", "U+16A67", "U+16A68", "U+16A69">>,
    <<"U+16AC0", "U+16AC1", "U+16AC2", "U+16AC3", "U+16AC4",
      "U+16AC5", "U+16AC6", "U+16AC7", "U+16AC8", "U+16AC9">>,
    <<"U+16B50", "U+16B51", "U+16B52", "U+16B53", "U+16B54",
      "U+16B55", "U+16B56", "U+16B57", "U+16B58", "U+16B59">>,
    <<"U+1D7CE", "U+1D7CF", "U+1D7D0", "U+1D7D1", "U+1D7D2",
      "U+1D7D3", "U+1D7D4", "U+1D7D5", "U+1D7D6", "U+1D7D7">>,
    <<"U+1D7D8", "U+1D7D9", "U+1D7DA", "U+1D7DB", "U+1D7DC",
      "U+1D7DD", "U+1D7DE", "U+1D7DF", "U+1D7E0", "U+1D7E1">>,
    <<"U+1D7E2", "U+1D7E3", "U+1D7E4", "U+1D7E5", "U+1D7E6",
      "U+1D7E7", "U+1D7E8", "U+1D7E9", "U+1D7EA", "U+1D7EB">>,
    <<"U+1D7EC", "U+1D7ED", "U+1D7EE", "U+1D7EF", "U+1D7F0",
      "U+1D7F1", "U+1D7F2", "U+1D7F3", "U+1D7F4", "U+1D7F5">>,
    <<"U+1D7F6", "U+1D7F7", "U+1D7F8", "U+1D7F9", "U+1D7FA",
      "U+1D7FB", "U+1D7FC", "U+1D7FD", "U+1D7FE", "U+1D7FF">>,
    <<"U+1E140", "U+1E141", "U+1E142", "U+1E143", "U+1E144",
      "U+1E145", "U+1E146", "U+1E147", "U+1E148", "U+1E149">>,
    <<"U+1E2F0", "U+1E2F1", "U+1E2F2", "U+1E2F3", "U+1E2F4",
      "U+1E2F5", "U+1E2F6", "U+1E2F7", "U+1E2F8", "U+1E2F9">>,
    <<"U+1E950", "U+1E951", "U+1E952", "U+1E953", "U+1E954",
      "U+1E955", "U+1E956", "U+1E957", "U+1E958", "U+1E959">>,
    <<"U+1FBF0", "U+1FBF1", "U+1FBF2", "U+1FBF3", "U+1FBF4",
      "U+1FBF5", "U+1FBF6", "U+1FBF7", "U+1FBF8", "U+1FBF9">>
  >>

(* the digits of the rows and their values *)
DecimalValues(rows) ==
  [c \in UNION {{rows[r][i] : i \in 1..10} : r \in 1..Len(rows)} |->
     (CHOOSE i \in 1..10 : \E r \in 1..Len(rows) : rows[r][i] = c) - 1]

UnicodeDecimal == DecimalValues(UnicodeDigits)

(* the digits int(p, 16) reads and their values *)
DigitValue ==
  ("0" :> 0) @@ ("1" :> 1) @@ ("2" :> 2) @@ ("3" :> 3) @@ ("4" :> 4) @@
  ("5" :> 5) @@ ("6" :> 6) @@ ("7" :> 7) @@ ("8" :> 8) @@ ("9" :> 9) @@
  ("a" :> 10) @@ ("b" :> 11) @@ ("c" :> 12) @@ ("d" :> 13) @@ ("e" :> 14) @@
  ("f" :> 15) @@ ("A" :> 10) @@ ("B" :> 11) @@ ("C" :> 12) @@ ("D" :> 13) @@
  ("E" :> 14) @@ ("F" :> 15) @@ UnicodeDecimal

IsDigit(c) == c \in DOMAIN DigitValue

(* The digit part of an int(p, 16) literal: digits with single underscores
   between them.  Yields -1 when the part is not of that form, else its value.
   acc is the value read so far, prev the character before d[1] ("" at the start). *)
RECURSIVE DigitsValue(_, _, _)
DigitsValue(d, acc, prev) ==
  IF Len(d) = 0 THEN (IF prev = "" \/ prev = "_" THEN -1 ELSE acc)
  ELSE IF d[1] = "_"
       THEN (IF prev = "" \/ prev = "_" THEN -1 ELSE DigitsValue(Tail(d), acc, "_"))
       ELSE IF IsDigit(d[1])
            THEN DigitsValue(Tail(d), 16 * acc + DigitValue[d[1]], d[1])
            ELSE -1

(* the digit 0 in ASCII or in another script: the 0 of a 0x prefix *)
IsZero(c) == IsDigit(c) /\ DigitValue[c] = 0

(* what int() yields for a literal whose digit part has value v, -1 standing
   for a malformed one: [ok |-> FALSE] stands for ValueError *)
IntResult(neg, v) ==
  IF v < 0 THEN [ok |-> FALSE, val |-> 0]
  ELSE [ok |-> TRUE, val |-> IF neg THEN 0 - v ELSE v]

(* the characters after a 0x / 0X prefix and the one underscore that may
   follow it, or all of s1 when it has no such prefix *)
AfterPrefix(s1) ==
  IF Len(s1) >= 2 /\ IsZero(s1[1]) /\ s1[2] \in {"x", "X"}
  THEN (IF Len(s1) >= 3 /\ s1[3] = "_" THEN SubSeq(s1, 4, Len(s1))
        ELSE SubSeq(s1, 3, Len(s1)))
  ELSE s1

(* int(p, 16) for a token p without whitespace: an optional sign, an optional
   0x / 0X prefix which one underscore may follow, then the digit part. *)
ParseInt16(p) ==
  LET neg == Len(p) > 0 /\ p[1] = "-"
      s1 == IF Len(p) > 0 /\ p[1] \in {"+", "-"} THEN Tail(p) ELSE p
  IN IntResult(neg, DigitsValue(AfterPrefix(s1), 0, ""))

----------------------------------------------------------------------------
(* Hex -> grid decoding, the body of hex_changed *)

(* tile after the un-swap loop has handled i = 0, 2, .., i (Python indices) *)
RECURSIVE UnswapLoop(_, _)
UnswapLoop(bytes_le, i) ==
  IF i < 0 THEN <<>>
  ELSE LET b == bytes_le[i + 1]
           a == bytes_le[i + 2]
       IN Append(Append(UnswapLoop(bytes_le, i - 2), a), b)

(* hex_changed without the un-swap loop *)
UndoSwapSkipped(bytes_le) == bytes_le

UndoSwap(bytes_le) == UnswapLoop(bytes_le, NBYTES - 2)

(* The index GB_REVERSE is looked up with for cell (row, x) of the tile *)
DecodedBits(tile, row, x) ==
  LET low == tile[2 * row + 1]
      high == tile[2 * row + 2]
      bit == 7 - x
      lo == And1(Shr(low, bit))
      hi == And1(Shr(high, bit))
  IN <<lo, hi>>

(* The decode loops write grid_data in place, cell k = 8 * row + x after cell
   k - 1.  A failed GB_REVERSE lookup (KeyError) ends them at that cell, the
   cells written before it kept: `stop` is the first such cell, 64 when there
   is none. *)
DecodeLoop(g, tile) ==
  LET failing == {k \in 0..(8 * 8 - 1) :
                    DecodedBits(tile, k \div 8, k % 8) \notin DOMAIN GB_REVERSE}
      stop == IF failing = {} THEN 8 * 8
              ELSE CHOOSE k \in failing : \A j \in failing : k <= j
  IN [error |-> IF stop = 8 * 8 THEN NoError ELSE ErrColorBits,
      grid |-> [r1 \in 1..8 |-> [x1 \in 1..8 |->
                  IF 8 * (r1 - 1) + (x1 - 1) < stop
                  THEN GB_REVERSE[DecodedBits(tile, r1 - 1, x1 - 1)]
                  ELSE g[r1][x1]]]]

(* [int(p, 16) for p in parts] *)
ParseAll(parts) == [i \in 1..Len(parts) |-> ParseInt16(parts[i])]

(* hex_changed parsing the tokens before it counts them *)
HexChangedResultParseFirst(text, g) ==
  LET parts == Split(Strip(text))
      parsed == ParseAll(parts)
  IN IF \E i \in 1..Len(parsed) : ~parsed[i].ok THEN [error |-> ErrHexByte, grid |-> g]
     ELSE IF Len(parts) # NBYTES THEN [error |-> ErrLength, grid |-> g]
     ELSE DecodeLoop(g, UndoSwap([i \in 1..Len(parsed) |-> parsed[i].val]))

(* hex_changed parsing each pair of tokens when it decodes its row: the rows
   before the first token that is no number are written, then the error shown *)
HexChangedResultStreaming(text, g) ==
  LET parts == Split(Strip(text))
  IN IF Len(parts) # NBYTES THEN [error |-> ErrLength, grid |-> g]
     ELSE LET parsed == ParseAll(parts)
              bad == {i \in 1..Len(parsed) : ~parsed[i].ok}
              full == DecodeLoop(g, UndoSwap([i \in 1..Len(parsed) |-> parsed[i].val]))
          IN IF bad = {} THEN full
             ELSE LET first == CHOOSE i \in bad : \A j \in bad : i <= j
                  IN [error |-> ErrHexByte,
                      grid |-> [r1 \in 1..8 |->
                                  IF r1 - 1 < (first - 1) \div 2 THEN full.grid[r1]
                                  ELSE g[r1]]]

(* hex_changed on field text `text` with grid g: the error shown (NoError when
   none) and the grid left behind. *)
HexChangedResult(text, g) ==
  LET parts == Split(Strip(text))
  IN IF Len(parts) # NBYTES THEN [error |-> ErrLength, grid |-> g]
     ELSE LET parsed == ParseAll(parts)
          IN IF \E i \in 1..Len(parsed) : ~parsed[i].ok
             THEN [error |-> ErrHexByte, grid |-> g]
             ELSE LET bytes_le == [i \in 1..Len(parsed) |-> parsed[i].val]
                  IN DecodeLoop(g, UndoSwap(bytes_le))

----------------------------------------------------------------------------
(* Drawing: what each surface shows, as the fill colour of every pixel.  A
   drawing operation yields the surface it leaves behind and whether it ran to
   its end: ok = FALSE when a PALETTE lookup raised IndexError. *)

(* a pixel whose item was deleted and not created again *)
NoItem == -1

(* PALETTE[v] raises IndexError outside -4..3 *)
PaletteHas(v) == 0 - Len(PALETTE) <= v /\ v < Len(PALETTE)

(* the entry PALETTE[v] is: a negative v counts from the end *)
PaletteEntry(v) == v % Len(PALETTE)

(* The drawing loops visit cell k = GRID * y + x after cell k - 1: the first
   cell whose value PALETTE does not hold, GRID * GRID when there is none. *)
FirstUndrawable(g) ==
  LET bad == {k \in 0..(GRID * GRID - 1) : ~PaletteHas(At(g, k \div GRID, k % GRID))}
  IN IF bad = {} THEN GRID * GRID
     ELSE CHOOSE k \in bad : \A j \in bad : k <= j

(* _draw_pixel(x, y): the pixel's item is deleted, then the colour looked up
   and the item created *)
DrawPixel(cv, g, x, y) ==
  IF PaletteHas(At(g, y, x))
  THEN [surface |-> SetAt(cv, y, x, PaletteEntry(At(g, y, x))), ok |-> TRUE]
  ELSE [surface |-> SetAt(cv, y, x, NoItem), ok |-> FALSE]

(* _draw_canvas(): every item deleted, then the pixels drawn row by row until
   one cannot be *)
DrawCanvas(g) ==
  LET stop == FirstUndrawable(g)
  IN [surface |-> [y1 \in 1..GRID |-> [x1 \in 1..GRID |->
                     IF GRID * (y1 - 1) + (x1 - 1) < stop
                     THEN PaletteEntry(g[y1][x1]) ELSE NoItem]],
      ok |-> stop = GRID * GRID]

(* _update_preview(): every item deleted, then the scaled pixels drawn row by
   row until one cannot be *)
UpdatePreview(g) ==
  LET stop == FirstUndrawable(g)
  IN [surface |-> [y1 \in 1..GRID |-> [x1 \in 1..GRID |->
                     IF GRID * (y1 - 1) + (x1 - 1) < stop
                     THEN PaletteEntry(g[y1][x1]) ELSE NoItem]],
      ok |-> stop = GRID * GRID]

(* grid_to_tile_bytes raises KeyError on a cell GB_MAPPING does not hold *)
Encodable(g) ==
  \A k \in 0..(GRID * GRID - 1) : At(g, k \div GRID, k % GRID) \in DOMAIN GB_MAPPING

InGrid(x, y) == 0 <= x /\ x < GRID /\ 0 <= y /\ y < GRID

----------------------------------------------------------------------------
(* Inputs *)

(* <<event.x, event.y>> of clicks and drags on the 8x8 canvas *)
CanvasEvents == {<<7, 0>>, <<8, 3>>}

(* <<event.x, event.y>> of clicks and drags on the preview (24 pixels per cell) *)
PreviewEvents == {<<47, 191>>, <<30, -1>>}

(* characters typed into the hex field *)
TypedChars == {"0"}

(* The sixteen tokens of a clipboard text: the wire bytes 7C 00 C6 01 A5 5A 3C
   FF 81 7E 0F F0 E7 18 99 66 of a tile with eight different rows and all four
   colours, written in the forms int(p, 16) takes: upper and lower case, a
   0x prefix, a sign, an underscore, one digit, three digits, digits of other
   scripts (U+0663 ARABIC-INDIC DIGIT THREE, U+FF10 FULLWIDTH DIGIT ZERO). *)
PastedTokens ==
  <<
    <<"0", "x", "7", "c">>, <<"1", "0", "0">>, <<"c", "6">>, <<"+", "1">>,
    <<"a", "5">>, <<"5", "A">>, <<"U+0663", "c">>, <<"-", "1">>,
    <<"8", "1">>, <<"7", "_", "E">>, <<"F">>, <<"U+FF10", "x", "f", "0">>,
    <<"0", "X", "_", "E", "7">>, <<"1", "8">>, <<"-", "6", "7">>, <<"6", "6">>
  >>

(* the whitespace after each of the tokens *)
PastedSeparators ==
  <<
    <<"\t">>, <<"\n">>, <<"\r", "\n">>, <<"\f">>, <<" ">>, <<"U+00A0">>,
    <<"U+3000">>, <<" ", " ">>, <<"\t", " ">>, <<"\n">>, <<"U+2003">>, <<"\r">>,
    <<" ">>, <<"U+2028">>, <<"U+0085">>, <<"U+3000", "\n">>
  >>

(* part i of parts followed by part i of seps, for every i *)
RECURSIVE Interleave(_, _)
Interleave(parts, seps) ==
  IF Len(parts) = 0 THEN <<>>
  ELSE parts[1] \o seps[1] \o Interleave(Tail(parts), Tail(seps))

(* the same tokens, the fifteenth mistyped: G is no hexadecimal digit *)
MistypedTokens == [PastedTokens EXCEPT ![15] = <<"9", "G">>]

(* clipboard texts pasted into the hex field: the tokens, whitespace of many
   kinds before, between and after them *)
PastedTexts ==
  { <<"\f", " ">> \o Interleave(toks, PastedSeparators) :
      toks \in {PastedTokens, MistypedTokens} }

----------------------------------------------------------------------------
(* State machine *)

BlankGrid == [y1 \in 1..GRID |-> [x1 \in 1..GRID |-> 0]]

(* __init__ *)
Init ==
  /\ grid_data = BlankGrid
  /\ current = 3
  /\ current_display = PALETTE[3 + 1]
  /\ canvas = DrawCanvas(BlankGrid).surface
  /\ preview = UpdatePreview(BlankGrid).surface
  /\ hex_entry = HexDisplay(BlankGrid)
  /\ sel_last = 0
  /\ error = NoError
  /\ last_op = "init"
  /\ steps = 0

(* one event taken from the queue by app.mainloop *)
Step(op) ==
  /\ steps < MaxSteps
  /\ steps' = steps + 1
  /\ last_op' = op
  /\ error' = NoError

(* one editing event handled by the Entry widget alone *)
Edit ==
  /\ Step("edit")
  /\ UNCHANGED <<grid_data, current, current_display, canvas, preview>>

(* the palette buttons pressed, of those made for idx in range(len(PALETTE)) *)
PressedButtons == {1}

(* a palette button: set_color(idx) *)
set_color(idx) ==
  /\ Step("set_color")
  /\ current' = idx
  /\ current_display' = PALETTE[idx + 1]
  /\ UNCHANGED <<grid_data, canvas, preview, hex_entry, sel_last>>

(* the grid after clear()'s loops *)
ClearedGrid(g) == [y1 \in 1..Len(g) |-> [x1 \in 1..Len(g[y1]) |-> 0]]

clear ==
  /\ Step("clear")
  /\ grid_data' = ClearedGrid(grid_data)
  /\ canvas' = DrawCanvas(grid_data').surface
  /\ preview' = UpdatePreview(grid_data').surface
  /\ hex_entry' = HexDisplay(grid_data')
  /\ sel_last' = 0
  /\ UNCHANGED <<current, current_display>>

(* the painted value one palette entry too far *)
LeftValueOffByOne(cur) == cur + 1

(* the value paint_left / paint_preview_left write: self.current *)
LeftValue(cur) == cur

(* the value paint_right / paint_preview_right write *)
RightValue == 0

(* the body shared by paint_left and paint_right: pixel (x, y) gets value v,
   that pixel is redrawn on the canvas, the preview and the hex field are
   refreshed; outside the grid nothing happens.  The cell is written first;
   the handler ends at the first call that raises: a drawing of a value PALETTE
   does not hold (IndexError), the encoding of one GB_MAPPING does not hold
   (KeyError), the surfaces and the field left as they are at that point.
   _update_hex_display deletes the field's text, and the selection with it. *)
PaintCanvas(op, x, y, v) ==
  IF InGrid(x, y)
  THEN LET g == SetAt(grid_data, y, x, v)
           px == DrawPixel(canvas, g, x, y)
           pv == UpdatePreview(g)
       IN /\ Step(op)
          /\ grid_data' = g
          /\ canvas' = px.surface
          /\ preview' = IF px.ok THEN pv.surface ELSE preview
          /\ hex_entry' = IF px.ok /\ pv.ok /\ Encodable(g)
                           THEN HexDisplay(g) ELSE hex_entry
          /\ sel_last' = IF px.ok /\ pv.ok /\ Encodable(g) THEN 0 ELSE sel_last
          /\ UNCHANGED <<current, current_display>>
  ELSE /\ Step("paint_outside")
       /\ UNCHANGED <<grid_data, canvas, preview, hex_entry, sel_last, current,
                       current_display>>

(* PaintPreview without the call of _update_hex_display *)
PaintPreviewStaleHex(op, x, y, v) ==
  IF InGrid(x, y)
  THEN LET g == SetAt(grid_data, y, x, v)
           cv == DrawCanvas(g)
           pv == UpdatePreview(g)
       IN /\ Step(op)
          /\ grid_data' = g
          /\ canvas' = cv.surface
          /\ preview' = IF cv.ok THEN pv.surface ELSE preview
          /\ UNCHANGED <<hex_entry, sel_last, current, current_display>>
  ELSE /\ Step("paint_outside")
       /\ UNCHANGED <<grid_data, canvas, preview, hex_entry, sel_last, current,
                       current_display>>

(* the body shared by paint_preview_left and paint_preview_right: as above
   with the whole canvas redrawn. *)
PaintPreview(op, x, y, v) ==
  IF InGrid(x, y)
  THEN LET g == SetAt(grid_data, y, x, v)
           cv == DrawCanvas(g)
           pv == UpdatePreview(g)
       IN /\ Step(op)
          /\ grid_data' = g
          /\ canvas' = cv.surface
          /\ preview' = IF cv.ok THEN pv.surface ELSE preview
          /\ hex_entry' = IF cv.ok /\ pv.ok /\ Encodable(g)
                           THEN HexDisplay(g) ELSE hex_entry
          /\ sel_last' = IF cv.ok /\ pv.ok /\ Encodable(g) THEN 0 ELSE sel_last
          /\ UNCHANGED <<current, current_display>>
  ELSE /\ Step("paint_outside")
       /\ UNCHANGED <<grid_data, canvas, preview, hex_entry, sel_last, current,
                       current_display>>

paint_left(ex, ey) == PaintCanvas("paint_left", ex, ey, LeftValue(current))

paint_right(ex, ey) == PaintCanvas("paint_right", ex, ey, RightValue)

paint_preview_left(ex, ey) ==
  PaintPreview("paint_preview_left", ex \div preview_scale, ey \div preview_scale,
               LeftValue(current))

paint_preview_right(ex, ey) ==
  PaintPreview("paint_preview_right", ex \div preview_scale, ey \div preview_scale,
               RightValue)

(* The Entry widget's own bindings, as Tk has them on X11.  The insertion
   cursor stands at the end of the text: _update_hex_display and every event
   below leave it there.  The selection, when there is one, is the first
   sel_last characters of the text; sel_last = 0 when there is none. *)

(* <<SelectAll>>: selection range 0 end *)
select_all ==
  /\ Edit
  /\ sel_last' = Len(hex_entry)
  /\ UNCHANGED hex_entry

(* a character key: a selection the cursor touches is deleted, then the
   character inserted at the cursor *)
type_char(c) ==
  /\ Edit
  /\ IF sel_last > 0 /\ sel_last = Len(hex_entry)
     THEN hex_entry' = <<c>> /\ sel_last' = 0
     ELSE hex_entry' = Append(hex_entry, c) /\ UNCHANGED sel_last

(* <BackSpace>: the selection deleted when there is one, else the character
   before the cursor *)
backspace ==
  /\ Edit
  /\ IF sel_last > 0
     THEN hex_entry' = SubSeq(hex_entry, sel_last + 1, Len(hex_entry)) /\ sel_last' = 0
     ELSE /\ hex_entry' = SubSeq(hex_entry, 1, Len(hex_entry) - 1)
          /\ UNCHANGED sel_last

(* <<Paste>> of clipboard text t: inserted at the cursor, the selection kept *)
paste(t) ==
  /\ Edit
  /\ hex_entry' = hex_entry \o t
  /\ UNCHANGED sel_last

(* <Return> in the hex field *)
hex_changed ==
  LET text == hex_entry
      r == HexChangedResult(text, grid_data)
  IN /\ steps < MaxSteps
     /\ steps' = steps + 1
     /\ last_op' = "hex_changed"
     /\ error' = r.error
     /\ grid_data' = r.grid
     /\ canvas' = IF r.error = NoError THEN DrawCanvas(r.grid).surface ELSE canvas
     /\ preview' = IF r.error = NoError /\ DrawCanvas(r.grid).ok
                    THEN UpdatePreview(r.grid).surface ELSE preview
     /\ UNCHANGED <<current, current_display, hex_entry, sel_last>>

Next ==
  \/ \E idx \in PressedButtons : set_color(idx)
  \/ clear
  \/ \E ev \in CanvasEvents : paint_left(ev[1], ev[2])
  \/ \E ev \in CanvasEvents : paint_right(ev[1], ev[2])
  \/ \E ev \in PreviewEvents : paint_preview_left(ev[1], ev[2])
  \/ \E ev \in PreviewEvents : paint_preview_right(ev[1], ev[2])
  \/ select_all
  \/ \E c \in TypedChars : type_char(c)
  \/ backspace
  \/ \E t \in PastedTexts : paste(t)
  \/ hex_changed

Spec == Init /\ [][Next]_vars

----------------------------------------------------------------------------
(* Vocabulary of the properties *)

Cells == (0..(GRID - 1)) \X (0..(GRID - 1))

ColoursOf(g) == {At(g, c[1], c[2]) : c \in Cells}

(* bit n of the two's complement of v *)
BitAt(v, n) == (v \div 2^n) % 2

(* the colour table of the tile format: index -> <<lowBit, highBit>> *)
TableBits == <<<<1, 1>>, <<1, 0>>, <<0, 0>>, <<0, 1>>>>

LowBit(idx) == TableBits[idx + 1][1]

HighBit(idx) == TableBits[idx + 1][2]

(* the wire bytes of grid g *)
WireBytes(g) == to_little_endian_pairs(grid_to_tile_bytes(g))

Inverted(g) == [y1 \in 1..GRID |-> [x1 \in 1..GRID |-> 3 - g[y1][x1]]]

SolidGrid(v) == [y1 \in 1..GRID |-> [x1 \in 1..GRID |-> v]]

(* the number of whitespace-separated tokens of text t *)
TokenCount(t) ==
  Cardinality({i \in 1..Len(t) : ~IsSpace(t[i]) /\ (i = 1 \/ IsSpace(t[i - 1]))})

UpperChar(c) ==
  CASE c = "a" -> "A" [] c = "b" -> "B" [] c = "c" -> "C"
    [] c = "d" -> "D" [] c = "e" -> "E" [] c = "f" -> "F" [] OTHER -> c

(* the tokens of h with hex digits uppercased, separated by single spaces *)
CanonicalForm(h) ==
  LET parts == Split(h)
  IN JoinSpace([n \in 1..Len(parts) |->
                  [i \in 1..Len(parts[n]) |-> UpperChar(parts[n][i])]])

HexChars == {"0", "1", "2", "3", "4", "5", "6", "7", "8", "9",
             "a", "b", "c", "d", "e", "f", "A", "B", "C", "D", "E", "F"}

(* a token that is a hexadecimal integer of one or two digits *)
IsByteToken(p) == Len(p) \in {1, 2} /\ \A i \in 1..Len(p) : p[i] \in HexChars

PaintOps == {"paint_left", "paint_right", "paint_preview_left", "paint_preview_right"}

(* The operations that write the grid; every other event leaves it as the
   last of these left it. *)
GridWritten == last_op \in {"init", "clear", "hex_changed"} \cup PaintOps

Tok(a, b) == <<a, b>>

Rep(tok, n) == [i \in 1..n |-> tok]

(* the hex text of the grid with every cell 0, and with every cell 3 *)
EncodedAllZero == HexDisplay(SolidGrid(0))

EncodedAllThree == HexDisplay(SolidGrid(3))

Decoded == last_op = "hex_changed" /\ error = NoError

----------------------------------------------------------------------------
(* C1: for every grid an operation leaves in the editor, decoding the hex text
   that encodes it succeeds and yields that grid in every cell; the text is
   decoded over the inverted grid, which differs from it in every cell. *)
RoundTrip ==
  GridWritten =>
    LET r == HexChangedResult(HexDisplay(grid_data), Inverted(grid_data))
    IN r.error = NoError /\ r.grid = grid_data

RoundTripWitness ==
  /\ Decoded
  /\ ColoursOf(grid_data) = 0..3
  /\ HexChangedResult(HexDisplay(grid_data), BlankGrid).grid = grid_data

(* C2: after a successful hex_changed the encoding of the decoded grid is the
   canonical form of the text that was decoded. *)
EncodeOfDecodeIsCanonical ==
  Decoded => HexDisplay(grid_data) = CanonicalForm(hex_entry)

(* C3: hex_changed on 16 tokens of which one is no hexadecimal integer of at
   most two digits reports the invalid-hex-byte error. *)
InvalidByteRejected ==
  (/\ last_op = "hex_changed"
   /\ TokenCount(hex_entry) = 16
   /\ \E n \in 1..16 : ~IsByteToken(Split(hex_entry)[n]))
  => error = ErrHexByte

(* C4: a hex_changed that ends in any of its errors leaves every cell of the
   grid as it was before the call. *)
FailureKeepsGrid ==
  [][(last_op' = "hex_changed" /\ error' # NoError) => grid_data' = grid_data]_vars

FailureKeepsGridWitness ==
  /\ last_op = "hex_changed"
  /\ error \in {ErrLength, ErrHexByte}
  /\ ColoursOf(grid_data) # {0}

(* C5: hex_changed on a text whose token count is not 16 reports the length
   error, also when the text holds a token that is no hexadecimal number. *)
LengthCheckedFirst ==
  (last_op = "hex_changed" /\ TokenCount(hex_entry) # 16) => error = ErrLength

LengthCheckedFirstWitness ==
  /\ last_op = "hex_changed"
  /\ TokenCount(hex_entry) \notin {0, 16}
  /\ \E n \in 1..TokenCount(hex_entry) : ~ParseInt16(Split(hex_entry)[n]).ok
  /\ error = ErrLength

(* C6: in the wire bytes of every grid an operation leaves in the editor, bit
   7 - x of byte 2r is the high bit of cell (r, x) and bit 7 - x of byte 2r + 1
   is its low bit; the all-0 grid encodes to sixteen FF and the all-3 grid to
   FF 00 eight times. *)
EncodeLayout ==
  /\ GridWritten =>
       LET wire == WireBytes(grid_data)
       IN /\ Len(wire) = 16
          /\ \A i \in 1..16 : wire[i] \in 0..255
          /\ \A c \in Cells :
                /\ BitAt(wire[2 * c[1] + 1], 7 - c[2]) = HighBit(At(grid_data, c[1], c[2]))
                /\ BitAt(wire[2 * c[1] + 2], 7 - c[2]) = LowBit(At(grid_data, c[1], c[2]))
  /\ EncodedAllZero = JoinSpace(Rep(Tok("F", "F"), 16))
  /\ EncodedAllThree
       = JoinSpace([i \in 1..16 |-> IF i % 2 = 1 THEN Tok("F", "F") ELSE Tok("0", "0")])

EncodeLayoutWitness ==
  /\ Decoded
  /\ Cardinality({WireBytes(grid_data)[i] : i \in 1..16}) >= 12

(* C7: the grid is always 8 rows by 8 columns of values in 0..3. *)
GridShape ==
  /\ Len(grid_data) = 8
  /\ \A y \in 0..7 : Len(grid_data[y + 1]) = 8
  /\ \A y \in 0..7 : \A x \in 0..7 : At(grid_data, y, x) \in {0, 1, 2, 3}

GridShapeWitness ==
  /\ last_op \in {"paint_left", "paint_preview_left"}
  /\ Cardinality(ColoursOf(grid_data)) >= 3

(* the 16 integers the hex field parses to, or the tile bytes of the grid
   when the field does not hold 16 numbers *)
FieldBytes ==
  LET nums == ParseAll(Split(Strip(hex_entry)))
  IN IF Len(nums) = 16 /\ \A n \in 1..16 : nums[n].ok
     THEN [n \in 1..16 |-> nums[n].val]
     ELSE grid_to_tile_bytes(grid_data)

(* C8: swapping the pairs of a 16-byte sequence twice gives the sequence
   back, and the un-swap of hex_changed is the same function. *)
SwapInvolution ==
  GridWritten =>
  \A b \in {FieldBytes, grid_to_tile_bytes(grid_data)} :
     LET swapped == to_little_endian_pairs(b)
     IN /\ to_little_endian_pairs(swapped) = b
        /\ UndoSwap(b) = swapped
        /\ \A r \in 0..7 : swapped[2 * r + 1] = b[2 * r + 2] /\ swapped[2 * r + 2] = b[2 * r + 1]

SwapInvolutionWitness ==
  /\ Decoded
  /\ \E r \in 0..7 : FieldBytes[2 * r + 1] # FieldBytes[2 * r + 2]
  /\ grid_to_tile_bytes(grid_data) # to_little_endian_pairs(grid_to_tile_bytes(grid_data))

(* C9: GB_REVERSE[GB_MAPPING[i]] = i for every index, and each of the four
   pairs of bits is the image of exactly one index, so the reverse lookup is
   defined on every pair; in particular it recovers every cell of the grid. *)
MappingBijection ==
  /\ DOMAIN GB_MAPPING = 0..3
  /\ \A i \in 0..3 : GB_MAPPING[i] \in DOMAIN GB_REVERSE /\ GB_REVERSE[GB_MAPPING[i]] = i
  /\ DOMAIN GB_REVERSE = {0, 1} \X {0, 1}
  /\ \A pr \in {0, 1} \X {0, 1} : Cardinality({i \in 0..3 : GB_MAPPING[i] = pr}) = 1
  /\ GridWritten =>
       \A c \in Cells :
          GB_REVERSE[GB_MAPPING[At(grid_data, c[1], c[2])]] = At(grid_data, c[1], c[2])

MappingBijectionWitness ==
  /\ Decoded
  /\ {DecodedBits(grid_to_tile_bytes(grid_data), c[1], c[2]) : c \in Cells}
        = {0, 1} \X {0, 1}

(* C10 as stated: after construction, after an in-range paint, after clear and
   after a successful hex_changed the hex field shows the encoding of the grid.
   The hex_changed case is taken for texts without leading or trailing blanks
   whose 16 tokens are hexadecimal bytes of one or two digits, the inputs the
   wire format describes. *)
HexFieldInSync ==
  (\/ last_op \in {"init", "clear"} \cup PaintOps
   \/ /\ Decoded
      /\ hex_entry = Strip(hex_entry)
      /\ \A n \in 1..16 : IsByteToken(Split(hex_entry)[n]))
  => hex_entry = HexDisplay(grid_data)

(* C10 amended: after construction, after an in-range paint and after clear
   the hex field shows the encoding of the grid; a successful hex_changed
   leaves the field as it was typed, its 16 tokens being numbers that agree
   modulo 256 with the wire bytes of the grid. *)
HexFieldInSyncAfterPaint ==
  /\ last_op \in {"init", "clear"} \cup PaintOps => hex_entry = HexDisplay(grid_data)
  /\ Decoded =>
       LET parts == Split(hex_entry)
           nums == ParseAll(parts)
           wire == WireBytes(grid_data)
       IN /\ Len(parts) = 16
          /\ \A n \in 1..16 : nums[n].ok /\ nums[n].val % 256 = wire[n]

HexFieldInSyncWitness ==
  /\ last_op \in {"paint_right", "paint_preview_right"}
  /\ ColoursOf(grid_data) # {0}
  /\ hex_entry = HexDisplay(grid_data)
  /\ sel_last = 0

====
